---- MODULE Spec2Model ----
(***************************************************************************)
(* HyperparameterSearcher (src/ml/unsorted/henri/hyperparameter_searcher.py)*)
(* as a state machine.  A state holds the caller's two argument dicts, the *)
(* searcher's two attributes, the invocation counters of the callable      *)
(* generators, and the last call with its outcome.                         *)
(*                                                                         *)
(* A generator is a record tagged the way the code inspects it:            *)
(*   kind = "list"      isinstance(generator, list)                        *)
(*   kind = "callable"  callable(generator)                                *)
(*   kind = "other"     anything else                                      *)
(* A dict the code iterates (hyperparams, overwritten_hyp) is a record of  *)
(* its keys in insertion order and its mapping; a dict that is only looked *)
(* up or compared is the mapping alone.                                    *)
(* Two callables exist: F returns the number of times it has been invoked  *)
(* (a callable with a side effect), G raises on every invocation.          *)
(* np.random.choice is the external random source: each call of it would   *)
(* read the next cell of a tape of arbitrary indices.  The module imports  *)
(* only warnings, so the global name np is unbound and evaluating          *)
(* np.random.choice raises NameError before any value is drawn.            *)
(***************************************************************************)
EXTENDS Integers, Sequences, FiniteSets, TLC

\* ------------------------------------------------------------------ bounds
MaxLen == 3
MaxN == 3
MaxRandN == 1
MaxCalls == 4

\* ------------------------------------------------------------------ values
Vals == {1, 2}
\* The names in use, listed to walk a set of names (line 51 iterates the set
\* callable_hyp: every order of it gives the same errors and counters).
NameSeq == <<"a", "b", "y", "z">>
Fns == {"F", "G"}
RaisingFns == {"G"}

ListGen(s) == [kind |-> "list", items |-> s, fn |-> "none", value |-> 0]
CallableGen(f) == [kind |-> "callable", items |-> <<>>, fn |-> f, value |-> 0]
OtherGen(v) == [kind |-> "other", items |-> <<>>, fn |-> "none", value |-> v]

EmptyDict == [k \in {} |-> 0]
Range(s) == {s[i] : i \in DOMAIN s}
SetItem(d, k, v) == [x \in (DOMAIN d) \cup {k} |-> IF x = k THEN v ELSE d[x]]
\* A dict with its insertion order: d[k] = v keeps the place of a key the dict
\* holds and puts a new key last.
EmptyOrderedDict == [keys |-> <<>>, at |-> EmptyDict]
dict_setitem(d, k, v) ==
    [keys |-> IF k \in Range(d.keys) THEN d.keys ELSE Append(d.keys, k),
     at |-> SetItem(d.at, k, v)]

SeqsUpTo(S, n) == UNION {[1..m -> S] : m \in 1..n}
ListGens == {ListGen(s) : s \in SeqsUpTo(Vals, MaxLen)}
GensA == ListGens \cup {OtherGen(1), CallableGen("F"), CallableGen("G")}
GensB == {ListGen(<<2, 1>>), CallableGen("F"), CallableGen("G")}
\* The dict literal whose keys are written in the order keys, "a" bound to ga
\* and every other key to gb.
MakeDict(keys, ga, gb) ==
    [keys |-> keys, at |-> [k \in Range(keys) |-> IF k = "a" THEN ga ELSE gb]]
KeyOrders(x, y) == {<<>>, <<x>>, <<y>>, <<x, y>>, <<y, x>>}
ExampleHyp == MakeDict(<<"a", "b">>, ListGen(<<1, 2, 3>>), ListGen(<<10, 20>>))
HypArgs == {MakeDict(keys, ga, gb) :
                keys \in KeyOrders("a", "b"), ga \in GensA, gb \in GensB}
               \cup {ExampleHyp}
DefaultArgs == {d \in UNION {[S -> Vals] : S \in SUBSET {"a", "y"}} :
                   "y" \in DOMAIN d => d["y"] = 1}
InterestLists == {<<>>, <<"a">>, <<"b">>, <<"a", "b">>, <<"b", "a">>, <<"a", "a">>}
OverrideArgs == {MakeDict(keys, ga, gz) :
                     keys \in KeyOrders("a", "z"),
                     ga \in {ListGen(<<1, 2>>), CallableGen("F")},
                     gz \in {OtherGen(9), CallableGen("F")}}

VARIABLES hyperparams_arg, hyp_defaults_arg, hyperparams_copy, self_hyperparams,
          phase, errors, warned, calls, op, args, result, calls0, built
vars == <<hyperparams_arg, hyp_defaults_arg, hyperparams_copy, self_hyperparams,
          phase, errors, warned, calls, op, args, result, calls0, built>>
\* ------------------------------------------------------- the stored state
\* self.hyperparams is the object hyperparams.copy() made; self.hyp_defaults
\* is the caller's own dict (line 35 stores the reference, not a copy).
\* (variant: the searcher keeps the caller's dict itself instead of a copy)
AliasedHyperparamsRef == "arg"
StoredHyperparamsRef == "copy"
dict_copy(d) == [keys |-> d.keys, at |-> [k \in DOMAIN d.at |-> d.at[k]]]
self_hyperparams_dict ==
    IF self_hyperparams = "copy" THEN hyperparams_copy ELSE hyperparams_arg
hyperparams == self_hyperparams_dict.at
hyperparams_keys == self_hyperparams_dict.keys
hyp_defaults == hyp_defaults_arg

\* The outcome of code that yields a value: the exception it raised or "none",
\* the value, the invocation counters and the tape position afterwards.
Ok(v, c, p) == [err |-> "none", value |-> v, calls |-> c, pos |-> p]
Raise(e, c, p) == [err |-> e, value |-> <<>>, calls |-> c, pos |-> p]

\* generator(): one more invocation of the callable; G raises.
Invoke(fn, c, p) ==
    LET c2 == [c EXCEPT ![fn] = @ + 1]
    IN  IF fn \in RaisingFns THEN Raise("Exception", c2, p) ELSE Ok(c2[fn], c2, p)

\* Whether the module's globals bind the name np: line 1 imports warnings only.
NpBound == FALSE
\* np.random.choice(generator): NameError on the lookup of np; were np bound, the
\* element at the index the next tape cell gives.
random_choice(items, tape, c, p) ==
    IF ~NpBound THEN Raise("NameError", c, p)
    ELSE Ok(items[((tape[p + 1] - 1) % Len(items)) + 1], c, p + 1)

\* ------------------------------------------------------------ _check_config
callable_hyp(hp) == {n \in DOMAIN hp : hp[n].kind = "callable"}
default_errors(hp, hd) == (DOMAIN hd) \ (DOMAIN hp)
Problem(k, names) == [kind |-> k, names |-> names]
RECURSIVE check_callables(_, _, _)
check_callables(names, hp, st) ==
    IF names = <<>> THEN st
    ELSE LET r == Invoke(hp[Head(names)].fn, st.calls, 0)
         IN  check_callables(Tail(names), hp,
                 [errors |-> IF r.err # "none"
                                THEN st.errors \cup {Problem("call error", {Head(names)})}
                                ELSE st.errors,
                  calls |-> r.calls])
\* (variant: validation stops at the unrecognised defaults and never probes)
check_config_first_only(hp, hd, c) ==
    IF Cardinality(default_errors(hp, hd)) # 0
        THEN [errors |-> {Problem("are not hyperparameters", default_errors(hp, hd))},
              calls |-> c]
        ELSE check_callables(SelectSeq(NameSeq, LAMBDA k : k \in callable_hyp(hp)), hp,
                 [errors |-> {}, calls |-> c])
check_config(hp, hd, c) ==
    check_callables(SelectSeq(NameSeq, LAMBDA k : k \in callable_hyp(hp)), hp,
        [errors |-> IF Cardinality(default_errors(hp, hd)) # 0
                       THEN {Problem("are not hyperparameters", default_errors(hp, hd))}
                       ELSE {},
         calls |-> c])
not_covered_defaults(hp, hd) ==
    (DOMAIN hp) \ (((DOMAIN hp) \ callable_hyp(hp)) \cup (DOMAIN hd))

\* ------------------------------------------- _generate_random, _choose_random
generate_random(generator, tape, c, p) ==
    IF generator.kind = "list" THEN random_choice(generator.items, tape, c, p)
    ELSE IF generator.kind = "callable" THEN Invoke(generator.fn, c, p)
    ELSE Ok(generator.value, c, p)

choose_random(hyp_name, tape, c, p) ==
    IF hyp_name \notin DOMAIN hyperparams THEN Raise("KeyError", c, p)
    ELSE generate_random(hyperparams[hyp_name], tape, c, p)

\* ------------------------------------------------------------ _choose_default
\* (variant: the generator is inspected, and a callable invoked, before the
\* default override is looked up)
choose_default_generator_first(hyp_name, c, p) ==
    IF hyp_name \notin DOMAIN hyperparams
        THEN (IF hyp_name \in DOMAIN hyp_defaults THEN Ok(hyp_defaults[hyp_name], c, p)
              ELSE Raise("KeyError", c, p))
    ELSE LET generator == hyperparams[hyp_name]
             r == IF generator.kind = "list" THEN Ok(generator.items[1], c, p)
                  ELSE IF generator.kind = "callable" THEN Invoke(generator.fn, c, p)
                  ELSE Ok(generator.value, c, p)
         IN  IF r.err = "none" /\ hyp_name \in DOMAIN hyp_defaults
                 THEN Ok(hyp_defaults[hyp_name], r.calls, r.pos)
                 ELSE r
choose_default(hyp_name, c, p) ==
    IF hyp_name \in DOMAIN hyp_defaults THEN Ok(hyp_defaults[hyp_name], c, p)
    ELSE IF hyp_name \notin DOMAIN hyperparams THEN Raise("KeyError", c, p)
    ELSE LET generator == hyperparams[hyp_name]
         IN  IF generator.kind = "list" THEN Ok(generator.items[1], c, p)
             ELSE IF generator.kind = "callable" THEN Invoke(generator.fn, c, p)
             ELSE Ok(generator.value, c, p)

\* ------------------------------------------------- default_dict, random_dict
RECURSIVE default_dict_from(_, _)
default_dict_from(names, st) ==
    IF names = <<>> \/ st.err # "none" THEN st
    ELSE LET r == choose_default(Head(names), st.calls, st.pos)
         IN  default_dict_from(Tail(names),
                 IF r.err # "none" THEN Raise(r.err, r.calls, r.pos)
                 ELSE Ok(SetItem(st.value, Head(names), r.value), r.calls, r.pos))
default_dict(c, p) == default_dict_from(hyperparams_keys, Ok(EmptyDict, c, p))

RECURSIVE random_dict_from(_, _, _)
random_dict_from(names, tape, st) ==
    IF names = <<>> \/ st.err # "none" THEN st
    ELSE LET r == choose_random(Head(names), tape, st.calls, st.pos)
         IN  random_dict_from(Tail(names), tape,
                 IF r.err # "none" THEN Raise(r.err, r.calls, r.pos)
                 ELSE Ok(SetItem(st.value, Head(names), r.value), r.calls, r.pos))
random_dict(tape, c, p) ==
    random_dict_from(hyperparams_keys, tape, Ok(EmptyDict, c, p))

\* --------------------------------------------- default_search, random_search
RECURSIVE default_search_from(_, _)
default_search_from(i, st) ==
    IF i <= 0 \/ st.err # "none" THEN st
    ELSE LET r == default_dict(st.calls, st.pos)
         IN  default_search_from(i - 1,
                 IF r.err # "none" THEN Raise(r.err, r.calls, r.pos)
                 ELSE Ok(Append(st.value, r.value), r.calls, r.pos))
default_search(n, c, p) == default_search_from(n, Ok(<<>>, c, p))

RECURSIVE random_search_from(_, _, _)
random_search_from(i, tape, st) ==
    IF i <= 0 \/ st.err # "none" THEN st
    ELSE LET r == random_dict(tape, st.calls, st.pos)
         IN  random_search_from(i - 1, tape,
                 IF r.err # "none" THEN Raise(r.err, r.calls, r.pos)
                 ELSE Ok(Append(st.value, r.value), r.calls, r.pos))
random_search(n, tape, c, p) == random_search_from(n, tape, Ok(<<>>, c, p))
\* ---------------------------------------------------------- one_value_search
RECURSIVE one_value_loop(_, _, _, _, _, _)
one_value_loop(i, n, n_rep, interests, tape, st) ==
    IF i >= n \/ st.err # "none" THEN st
    ELSE IF i \div n_rep >= Len(interests) THEN Raise("IndexError", st.calls, st.pos)
    ELSE LET hyp_name == interests[(i \div n_rep) + 1]
             r == choose_random(hyp_name, tape, st.calls, st.pos)
         IN  one_value_loop(i + 1, n, n_rep, interests, tape,
                 IF r.err # "none" THEN Raise(r.err, r.calls, r.pos)
                 ELSE Ok([st.value EXCEPT ![i + 1] = SetItem(@, hyp_name, r.value)],
                         r.calls, r.pos))
\* (variant: the default dictionaries are built before n_rep is asserted)
one_value_search_late_assert(interests, n, tape, c) ==
    IF Len(interests) = 0 THEN Raise("ZeroDivisionError", c, 0)
    ELSE LET n_rep == n \div Len(interests)
             ds == default_search(n, c, 0)
         IN  IF ~(n_rep > 0) THEN Raise("AssertionError", ds.calls, 0)
             ELSE one_value_loop(0, n, n_rep, interests, tape, ds)
one_value_search(interests, n, tape, c) ==
    IF Len(interests) = 0 THEN Raise("ZeroDivisionError", c, 0)
    ELSE LET n_rep == n \div Len(interests)
         IN  IF ~(n_rep > 0) THEN Raise("AssertionError", c, 0)
             ELSE one_value_loop(0, n, n_rep, interests, tape, default_search(n, c, 0))

\* ----------------------------------------------------- one_value_grid_search
RECURSIVE SumLen(_)
SumLen(interests) ==
    IF interests = <<>> THEN 0
    ELSE Len(hyperparams[Head(interests)].items) + SumLen(Tail(interests))
\* (variant: a hyperparameter named twice is counted once)
n_unique_tuples_distinct(interests) ==
    SumLen(SelectSeq(NameSeq, LAMBDA k : k \in Range(interests)))
        + 1 - Cardinality(Range(interests))
n_unique_tuples(interests) == SumLen(interests) + 1 - Len(interests)

\* (variant: the last position holding v)
list_index_last(l, v) ==
    IF \E i \in DOMAIN l : l[i] = v
        THEN CHOOSE i \in DOMAIN l : l[i] = v /\ \A j \in (i + 1)..Len(l) : l[j] # v
        ELSE 0
\* (variant: a missing value counts as found at the first position)
list_index_or_first(l, v) ==
    IF \E i \in DOMAIN l : l[i] = v
        THEN CHOOSE i \in DOMAIN l : l[i] = v /\ \A j \in 1..(i - 1) : l[j] # v
        ELSE 1
\* list.index(v): the first position holding v, 0 when there is none (ValueError).
list_index(l, v) ==
    IF \E i \in DOMAIN l : l[i] = v
        THEN CHOOSE i \in DOMAIN l : l[i] = v /\ \A j \in 1..(i - 1) : l[j] # v
        ELSE 0
list_pop(l, i) == [j \in 1..(Len(l) - 1) |-> IF j < i THEN l[j] ELSE l[j + 1]]
\* (variant: the first candidate is dropped, whatever the default is)
non_default_list_pop_first(l, default) == list_pop(l, 1)
non_default_list(l, default) == list_pop(l, list_index(l, default))

RECURSIVE non_default_hyperparams(_, _)
non_default_hyperparams(interests, st) ==
    IF interests = <<>> \/ st.err # "none" THEN st
    ELSE LET hyp_name == Head(interests)
             l == hyperparams[hyp_name].items
             d == choose_default(hyp_name, st.calls, 0)
         IN  non_default_hyperparams(Tail(interests),
                 IF d.err # "none" THEN Raise(d.err, d.calls, 0)
                 ELSE IF list_index(l, d.value) = 0 THEN Raise("ValueError", d.calls, 0)
                 ELSE Ok(SetItem(st.value, hyp_name, non_default_list(l, d.value)),
                         d.calls, 0))

Fill(e, v, i) == [err |-> e, value |-> v, search_i |-> i]
RECURSIVE grid_values(_, _, _)
grid_values(values, hyp_name, st) ==
    IF values = <<>> \/ st.err # "none" THEN st
    ELSE IF st.search_i >= Len(st.value) THEN Fill("IndexError", <<>>, st.search_i)
    ELSE grid_values(Tail(values), hyp_name,
             Fill("none",
                  [st.value EXCEPT ![st.search_i + 1] = SetItem(@, hyp_name, Head(values))],
                  st.search_i + 1))
RECURSIVE grid_fill(_, _, _)
grid_fill(interests, nd, st) ==
    IF interests = <<>> \/ st.err # "none" THEN st
    ELSE grid_fill(Tail(interests), nd, grid_values(nd[Head(interests)], Head(interests), st))

\* Line 144 binds non_default_list to list(self.hyperparams[hyp_name]), a new
\* list object, and line 145 pops from the object that name is bound to.
\* (variant: non_default_list is the stored candidate list itself)
NonDefaultListIsStored == "stored"
NonDefaultListObject == "new"
\* self.hyperparams after lines 143-146 have run over interests, the loop
\* stopping at the first default that is not in its list.
RECURSIVE hyperparams_after_pops(_, _)
hyperparams_after_pops(interests, d) ==
    IF interests = <<>> THEN d
    ELSE LET hyp_name == Head(interests)
             l == d.at[hyp_name].items
             default == choose_default(hyp_name, calls, 0)
         IN  IF default.err # "none" \/ list_index(l, default.value) = 0 THEN d
             ELSE hyperparams_after_pops(Tail(interests),
                      IF NonDefaultListObject = "stored"
                          THEN [d EXCEPT !.at[hyp_name].items =
                                             non_default_list(l, default.value)]
                          ELSE d)
\* self.hyperparams after one_value_grid_search(interests).
one_value_grid_search_hyperparams(interests) ==
    IF \E i \in DOMAIN interests : interests[i] \notin DOMAIN hyperparams
        THEN self_hyperparams_dict
    ELSE IF ~(\A i \in DOMAIN interests : hyperparams[interests[i]].kind = "list")
        THEN self_hyperparams_dict
    ELSE hyperparams_after_pops(interests, self_hyperparams_dict)

one_value_grid_search(interests, c) ==
    IF \E i \in DOMAIN interests : interests[i] \notin DOMAIN hyperparams
        THEN Raise("KeyError", c, 0)
    ELSE IF ~(\A i \in DOMAIN interests : hyperparams[interests[i]].kind = "list")
        THEN Raise("AssertionError", c, 0)
    ELSE LET nd == non_default_hyperparams(interests, Ok(EmptyDict, c, 0))
         IN  IF nd.err # "none" THEN Raise(nd.err, nd.calls, 0)
             ELSE LET ds == default_search(n_unique_tuples(interests), nd.calls, 0)
                  IN  IF ds.err # "none" THEN ds
                      ELSE LET f == grid_fill(interests, nd.value, Fill("none", ds.value, 1))
                           IN  IF f.err # "none" THEN Raise(f.err, ds.calls, 0)
                               ELSE IF f.search_i # n_unique_tuples(interests)
                                   THEN Raise("AssertionError", ds.calls, 0)
                               ELSE Ok(f.value, ds.calls, 0)

\* -------------------------------------------------------------- custom_search
RECURSIVE custom_items(_, _, _, _)
custom_items(names, overwritten_hyp, tape, st) ==
    IF names = <<>> \/ st.err # "none" THEN st
    ELSE LET r == generate_random(overwritten_hyp.at[Head(names)], tape, st.calls, st.pos)
         IN  custom_items(Tail(names), overwritten_hyp, tape,
                 IF r.err # "none" THEN Raise(r.err, r.calls, r.pos)
                 ELSE Ok(SetItem(st.value, Head(names), r.value), r.calls, r.pos))
RECURSIVE custom_loop(_, _, _, _, _)
custom_loop(i, n, overwritten_hyp, tape, st) ==
    IF i >= n \/ st.err # "none" THEN st
    ELSE LET r == custom_items(overwritten_hyp.keys, overwritten_hyp, tape,
                               Ok(st.value[i + 1], st.calls, st.pos))
         IN  custom_loop(i + 1, n, overwritten_hyp, tape,
                 IF r.err # "none" THEN Raise(r.err, r.calls, r.pos)
                 ELSE Ok([st.value EXCEPT ![i + 1] = r.value], r.calls, r.pos))
custom_search(overwritten_hyp, n, tape, c) ==
    custom_loop(0, n, overwritten_hyp, tape, default_search(n, c, 0))
\* -------------------------------------------------------------------- actions
NoArgs == [interests |-> <<>>, n |-> 0, overwritten_hyp |-> EmptyOrderedDict]
Outcome(r) == [err |-> r.err, value |-> r.value, draws |-> r.pos]
WithinCalls(r) == \A f \in Fns : r.calls[f] <= MaxCalls

\* The longest list a call can draw from: the range of the tape's cells.
MaxChoice(gens) ==
    LET lens == {Len(g.items) : g \in {h \in gens : h.kind = "list"}} \cup {1}
    IN  CHOOSE m \in lens : \A k \in lens : k <= m
Gens(d) == {d[k] : k \in DOMAIN d}
NumLists(d) == Cardinality({k \in DOMAIN d : d[k].kind = "list"})
Tapes(len, gens) == [1..len -> 1..MaxChoice(gens)]

Init ==
    /\ hyperparams_arg \in HypArgs
    /\ hyp_defaults_arg \in DefaultArgs
    /\ hyperparams_copy = EmptyOrderedDict
    /\ self_hyperparams = "unset"
    /\ phase = "new"
    /\ errors = {}
    /\ warned = {}
    /\ calls = [f \in Fns |-> 0]
    /\ calls0 = [f \in Fns |-> 0]
    /\ op = "none"
    /\ args = NoArgs
    /\ result = [err |-> "none", value |-> <<>>, draws |-> 0]
    /\ built = [hyperparams |-> EmptyOrderedDict, hyp_defaults |-> EmptyDict]

\* HyperparameterSearcher(hyperparams, hyp_defaults)
Construct ==
    /\ phase = "new"
    /\ LET hp == dict_copy(hyperparams_arg)
           chk == check_config(hp.at, hyp_defaults_arg, calls)
       IN  /\ hyperparams_copy' = hp
           /\ self_hyperparams' = StoredHyperparamsRef
           /\ errors' = chk.errors
           /\ warned' = not_covered_defaults(hp.at, hyp_defaults_arg)
           /\ calls' = chk.calls
           /\ phase' = IF Cardinality(chk.errors) = 0 THEN "ready" ELSE "failed"
           /\ result' = [err |-> IF Cardinality(chk.errors) = 0 THEN "none"
                                 ELSE "AssertionError",
                         value |-> <<>>, draws |-> 0]
           /\ built' = [hyperparams |-> hp, hyp_defaults |-> hyp_defaults_arg]
    /\ op' = "construct"
    /\ args' = NoArgs
    /\ calls0' = calls
    /\ UNCHANGED <<hyperparams_arg, hyp_defaults_arg>>

\* How a call on the constructed searcher records its outcome r and the dict
\* hp that self.hyperparams names when the call is over.  No method assigns
\* self.hyperparams or self.hyp_defaults, and none writes to hyp_defaults.
Called(name, a, r, hp) ==
    /\ WithinCalls(r)
    /\ op' = name
    /\ args' = a
    /\ result' = Outcome(r)
    /\ calls' = r.calls
    /\ calls0' = calls
    /\ IF self_hyperparams = "copy"
           THEN hyperparams_copy' = hp /\ UNCHANGED hyperparams_arg
           ELSE hyperparams_arg' = hp /\ UNCHANGED hyperparams_copy
    /\ UNCHANGED <<hyp_defaults_arg, self_hyperparams, phase, errors, warned, built>>

\* What a call that returns one dictionary records: the dictionary as a
\* one-element result, and nothing when the call raised.
OneDict(r) == IF r.err = "none" THEN [r EXCEPT !.value = <<r.value>>] ELSE r

\* A call is made by a caller that holds no earlier result (op = "none"); Return
\* is the caller taking the result (or the exception) of the call it made.
Idle == phase = "ready" /\ op = "none"

DefaultDict ==
    /\ Idle
    /\ LET r == default_dict(calls, 0)
       IN  Called("default_dict", NoArgs, OneDict(r), self_hyperparams_dict)

RandomDict ==
    /\ Idle
    /\ \E tape \in Tapes(NumLists(hyperparams), Gens(hyperparams)) :
          LET r == random_dict(tape, calls, 0)
          IN  Called("random_dict", NoArgs, OneDict(r), self_hyperparams_dict)

DefaultSearch ==
    /\ Idle
    /\ \E n \in 0..MaxN :
          Called("default_search", [NoArgs EXCEPT !.n = n], default_search(n, calls, 0),
                 self_hyperparams_dict)

RandomSearch ==
    /\ Idle
    /\ \E n \in 0..MaxRandN :
       \E tape \in Tapes(n * NumLists(hyperparams), Gens(hyperparams)) :
          Called("random_search", [NoArgs EXCEPT !.n = n], random_search(n, tape, calls, 0),
                 self_hyperparams_dict)

OneValueSearch ==
    /\ Idle
    /\ \E interests \in InterestLists, n \in 0..MaxN :
       \E tape \in Tapes(n, Gens(hyperparams)) :
          Called("one_value_search", [NoArgs EXCEPT !.interests = interests, !.n = n],
                 one_value_search(interests, n, tape, calls),
                 self_hyperparams_dict)

OneValueGridSearch ==
    /\ Idle
    /\ \E interests \in InterestLists :
          Called("one_value_grid_search", [NoArgs EXCEPT !.interests = interests],
                 one_value_grid_search(interests, calls),
                 one_value_grid_search_hyperparams(interests))

CustomSearch ==
    /\ Idle
    /\ \E overwritten_hyp \in OverrideArgs, n \in 0..MaxRandN :
       \E tape \in Tapes(n * NumLists(overwritten_hyp.at), Gens(overwritten_hyp.at)) :
          Called("custom_search", [NoArgs EXCEPT !.overwritten_hyp = overwritten_hyp, !.n = n],
                 custom_search(overwritten_hyp, n, tape, calls),
                 self_hyperparams_dict)

\* The caller adds or replaces an entry of the dict it passed as hyperparams.
CallerSetItem ==
    /\ Idle
    /\ hyperparams_arg' = dict_setitem(hyperparams_arg, "b", OtherGen(2))
    /\ op' = "caller_setitem"
    /\ args' = NoArgs
    /\ result' = [err |-> "none", value |-> <<>>, draws |-> 0]
    /\ calls0' = calls
    /\ UNCHANGED <<hyp_defaults_arg, hyperparams_copy, self_hyperparams, phase, errors,
                   warned, calls, built>>

Return ==
    /\ phase = "ready"
    /\ op # "none"
    /\ op' = "none"
    /\ args' = NoArgs
    /\ result' = [err |-> "none", value |-> <<>>, draws |-> 0]
    /\ calls0' = calls
    /\ UNCHANGED <<hyperparams_arg, hyp_defaults_arg, hyperparams_copy, self_hyperparams,
                   phase, errors, warned, calls, built>>

Next ==
    \/ Construct
    \/ Return
    \/ DefaultDict
    \/ RandomDict
    \/ DefaultSearch
    \/ RandomSearch
    \/ OneValueSearch
    \/ OneValueGridSearch
    \/ CustomSearch

Spec == Init /\ [][Next]_vars

\* The searcher together with a caller that keeps writing to the dict it passed,
\* over the hyperparameter dicts whose candidate lists have at most two values.
InitCaller ==
    /\ Init
    /\ \A k \in DOMAIN hyperparams_arg.at : Len(hyperparams_arg.at[k].items) <= 2
NextCaller == Next \/ CallerSetItem
SpecCaller == InitCaller /\ [][NextCaller]_vars
\* ============================================================== properties
\* Reference definitions the properties are stated with.  They restate what
\* the specification says a default is, independently of the operators above.
Pos(k) == CHOOSE i \in DOMAIN hyperparams_keys : hyperparams_keys[i] = k
FreshKeys(f) ==
    {k \in DOMAIN hyperparams :
        /\ hyperparams[k].kind = "callable"
        /\ hyperparams[k].fn = f
        /\ k \notin DOMAIN hyp_defaults}
CallableKeys(f) ==
    {k \in DOMAIN hyperparams : hyperparams[k].kind = "callable" /\ hyperparams[k].fn = f}
\* The default of hyperparameter k in the j-th default dictionary a call builds:
\* the override, else the first candidate, else the fixed value, else what the
\* Factory returns on that invocation (F returns its invocation count).
DefaultsAt(j) ==
    [k \in DOMAIN hyperparams |->
        IF k \in DOMAIN hyp_defaults THEN hyp_defaults[k]
        ELSE IF hyperparams[k].kind = "list" THEN hyperparams[k].items[1]
        ELSE IF hyperparams[k].kind = "other" THEN hyperparams[k].value
        ELSE LET fresh == FreshKeys(hyperparams[k].fn)
             IN  calls0[hyperparams[k].fn] + (j - 1) * Cardinality(fresh)
                   + Cardinality({x \in fresh : Pos(x) <= Pos(k)})]
ResolvedDefault(k) == DefaultsAt(1)[k]
DiffKeys(j) ==
    {k \in (DOMAIN result.value[j]) \cup (DOMAIN hyperparams) :
        \/ k \notin DOMAIN result.value[j]
        \/ k \notin DOMAIN hyperparams
        \/ result.value[j][k] # DefaultsAt(j)[k]}
Occurrences(l, v) == Cardinality({i \in DOMAIN l : l[i] = v})
Min(x, y) == IF x <= y THEN x ELSE y
Named(interests) == Range(interests) \subseteq DOMAIN hyperparams
AllCandidates(interests) ==
    \A i \in DOMAIN interests : hyperparams[interests[i]].kind = "list"
DefaultsAreMembers(interests) ==
    \A i \in DOMAIN interests :
        ResolvedDefault(interests[i]) \in Range(hyperparams[interests[i]].items)

\* C1: for n >= k >= 1, one_value_search returns n dictionaries without failing,
\* and dictionary i differs from the defaults in at most the key
\* interests[min(i div (n div k), k - 1)] (the last interest absorbs the remainder).
C1_OneValueSearchClamped ==
    (/\ op = "one_value_search"
     /\ Len(args.interests) >= 1
     /\ args.n >= Len(args.interests)
     /\ Named(args.interests))
    => /\ result.err = "none"
       /\ Len(result.value) = args.n
       /\ \A i \in 0..(args.n - 1) :
             LET k == Len(args.interests)
                 key == args.interests[Min(i \div (args.n \div k), k - 1) + 1]
             IN  DiffKeys(i + 1) \subseteq {key}

\* C2 as stated: every grid output after the first differs from the defaults in
\* exactly one key, an interest, whose value is a candidate and is not the default.
C2_GridNeverDefault ==
    (op = "one_value_grid_search" /\ result.err = "none")
    => \A j \in 2..Len(result.value) :
          \E key \in Range(args.interests) :
             /\ DiffKeys(j) = {key}
             /\ result.value[j][key] \in Range(hyperparams[key].items)
             /\ result.value[j][key] # ResolvedDefault(key)

\* C2 as amended: every grid output after the first differs from the defaults in
\* at most one key, an interest, whose value is a candidate; when the candidate
\* list holds the resolved default exactly once, the output differs in exactly
\* that key and its value is not the default.
C2_GridAtMostOneKey ==
    (op = "one_value_grid_search" /\ result.err = "none")
    => \A j \in 2..Len(result.value) :
          \E key \in Range(args.interests) :
             /\ DiffKeys(j) \subseteq {key}
             /\ result.value[j][key] \in Range(hyperparams[key].items)
             /\ Occurrences(hyperparams[key].items, ResolvedDefault(key)) = 1
                  => /\ DiffKeys(j) = {key}
                     /\ result.value[j][key] # ResolvedDefault(key)
C2_Witness ==
    /\ op = "one_value_grid_search"
    /\ result.err = "none"
    /\ \E j \in 2..Len(result.value) : DiffKeys(j) = {}
    /\ \E j \in 2..Len(result.value) : DiffKeys(j) = {"a"}

\* C3: the grid is the default dictionary followed, interest by interest, by one
\* default dictionary per candidate in list order without the first occurrence of
\* the default, overridden in that hyperparameter only.
RECURSIVE RemoveFirst(_, _)
RemoveFirst(l, v) ==
    IF l = <<>> THEN <<>>
    ELSE IF Head(l) = v THEN Tail(l)
    ELSE <<Head(l)>> \o RemoveFirst(Tail(l), v)
RECURSIVE GridOverrides(_)
GridOverrides(interests) ==
    IF interests = <<>> THEN <<>>
    ELSE LET name == Head(interests)
             rest == RemoveFirst(hyperparams[name].items, ResolvedDefault(name))
         IN  [i \in 1..Len(rest) |-> [name |-> name, value |-> rest[i]]]
               \o GridOverrides(Tail(interests))
ExpectedGrid(interests) ==
    LET ov == GridOverrides(interests)
    IN  [j \in 1..(Len(ov) + 1) |->
            IF j = 1 THEN DefaultsAt(1)
            ELSE [DefaultsAt(j) EXCEPT ![ov[j - 1].name] = ov[j - 1].value]]
ExampleGrid ==
    <<[a |-> 1, b |-> 10], [a |-> 2, b |-> 10], [a |-> 3, b |-> 10], [a |-> 1, b |-> 20]>>
C3_GridSequence ==
    (op = "one_value_grid_search" /\ result.err = "none")
    => /\ result.value = ExpectedGrid(args.interests)
       /\ (/\ self_hyperparams_dict = ExampleHyp
           /\ DOMAIN hyp_defaults = {}
           /\ args.interests = <<"a", "b">>) => result.value = ExampleGrid
C3_Witness ==
    /\ op = "one_value_grid_search"
    /\ result.err = "none"
    /\ self_hyperparams_dict = ExampleHyp
    /\ args.interests = <<"a", "b">>
    /\ result.value = ExampleGrid

\* C4: with Candidates interests whose defaults are members, the grid call does
\* not fail and returns (sum of the candidate counts) - len(interests) + 1
\* dictionaries, also for a repeated interest and for no interest.
RECURSIVE CandidateCount(_)
CandidateCount(interests) ==
    IF interests = <<>> THEN 0
    ELSE Len(hyperparams[Head(interests)].items) + CandidateCount(Tail(interests))
C4_GridCount ==
    (/\ op = "one_value_grid_search"
     /\ Named(args.interests)
     /\ AllCandidates(args.interests)
     /\ DefaultsAreMembers(args.interests))
    => /\ result.err = "none"
       /\ Len(result.value) = CandidateCount(args.interests) - Len(args.interests) + 1
C4_Witness ==
    /\ op = "one_value_grid_search"
    /\ args.interests = <<"a", "a">>
    /\ result.err = "none"
    /\ Len(hyperparams["a"].items) = 3
    /\ Len(result.value) = 5
\* C5: construction fails exactly when a default names no hyperparameter or a
\* Factory raises on its probe call, and the error carries one problem for the
\* set of unrecognised names plus one problem per raising Factory.
UnknownDefaults == (DOMAIN hyp_defaults_arg) \ (DOMAIN hyperparams_arg.at)
RaisingKeys ==
    {k \in DOMAIN hyperparams_arg.at :
        hyperparams_arg.at[k].kind = "callable" /\ hyperparams_arg.at[k].fn \in RaisingFns}
C5_ValidationAccumulates ==
    op = "construct"
    => /\ (phase = "failed") <=> (UnknownDefaults # {} \/ RaisingKeys # {})
       /\ (phase = "ready") <=> (UnknownDefaults = {} /\ RaisingKeys = {})
       /\ (result.err # "none") <=> (phase = "failed")
       /\ \A k \in RaisingKeys : Problem("call error", {k}) \in errors
       /\ UnknownDefaults # {}
            => Problem("are not hyperparameters", UnknownDefaults) \in errors
       /\ Cardinality(errors) =
            Cardinality(RaisingKeys) + (IF UnknownDefaults # {} THEN 1 ELSE 0)
C5_Witness ==
    /\ op = "construct"
    /\ phase = "failed"
    /\ UnknownDefaults = {"y"}
    /\ RaisingKeys = {"a", "b"}
    /\ Cardinality(errors) = 3

\* C6: one_value_search with n < len(interests) fails on its assertion with no
\* dictionary built, no random value drawn and no Factory invoked; with no
\* interest at all the call fails as well.
C6_TooFewFailsFirst ==
    op = "one_value_search"
    => /\ (args.n < Len(args.interests))
            => /\ result.err = "AssertionError"
               /\ result.value = <<>>
               /\ result.draws = 0
               /\ calls = calls0
       /\ (Len(args.interests) = 0)
            => /\ result.err # "none"
               /\ result.value = <<>>
               /\ result.draws = 0
               /\ calls = calls0
C6_Witness ==
    /\ op = "one_value_search"
    /\ args.interests = <<"a", "b">>
    /\ args.n = 1
    /\ Named(args.interests)
    /\ FreshKeys("F") = {"b"}
    /\ hyperparams["a"].kind = "list"
    /\ result.err = "AssertionError"
    /\ calls = calls0

\* C7: custom_search returns n dictionaries whose keys are the hyperparameters and
\* the overridden names; an overridden name holds the fixed value, a member of the
\* candidate list, or what the Factory returned on its invocation for that
\* dictionary; every other key holds its default.
C7_CustomSearch ==
    op = "custom_search"
    => /\ result.err = "none"
       /\ Len(result.value) = args.n
       /\ \A j \in 1..Len(result.value) :
             LET d == result.value[j]
                 ov == args.overwritten_hyp.at
                 at(k) == CHOOSE i \in DOMAIN args.overwritten_hyp.keys :
                              args.overwritten_hyp.keys[i] = k
                 same(k) == {x \in DOMAIN ov : ov[x].kind = "callable" /\ ov[x].fn = ov[k].fn}
             IN  /\ DOMAIN d = (DOMAIN hyperparams) \cup (DOMAIN ov)
                 /\ \A k \in (DOMAIN hyperparams) \ (DOMAIN ov) : d[k] = DefaultsAt(j)[k]
                 /\ \A k \in DOMAIN ov :
                       /\ ov[k].kind = "other" => d[k] = ov[k].value
                       /\ ov[k].kind = "list" => d[k] \in Range(ov[k].items)
                       /\ ov[k].kind = "callable"
                            => d[k] = calls0[ov[k].fn]
                                        + args.n * Cardinality(FreshKeys(ov[k].fn))
                                        + (j - 1) * Cardinality(same(k))
                                        + Cardinality({x \in same(k) : at(x) <= at(k)})

\* C8: the grid call fails and returns nothing when a named hyperparameter is not
\* Candidates (the assertion of line 136) or when a resolved default is not in its
\* candidate list (list.index raises ValueError).
C8_GridRejects ==
    (op = "one_value_grid_search" /\ Named(args.interests))
    => /\ ~AllCandidates(args.interests)
            => result.err = "AssertionError" /\ result.value = <<>>
       /\ (AllCandidates(args.interests) /\ ~DefaultsAreMembers(args.interests))
            => result.err = "ValueError" /\ result.value = <<>>
C8_Witness ==
    /\ op = "one_value_grid_search"
    /\ args.interests = <<"b", "a">>
    /\ Named(args.interests)
    /\ AllCandidates(args.interests)
    /\ "a" \in DOMAIN hyp_defaults
    /\ ~DefaultsAreMembers(args.interests)
    /\ result.err = "ValueError"

\* C9: construction invokes every Factory once, default_dict invokes once each
\* Factory that has no default override and no other, default_search(n) does so n
\* times; so a lone Factory has been invoked twice after construction and the
\* first default_dict when it has no default override, and once when it has one.
Invoked(f) == calls[f] - calls0[f]
C9_FactoryInvocations ==
    /\ op = "construct"
         => \A f \in Fns : Invoked(f) = Cardinality(CallableKeys(f)) /\ calls0[f] = 0
    /\ op = "default_dict"
         => /\ result.err = "none"
            /\ \A f \in Fns : Invoked(f) = Cardinality(FreshKeys(f))
            /\ \A k \in DOMAIN hyperparams :
                  (CallableKeys("F") = {k} /\ calls0["F"] = 1)
                     => calls["F"] = IF k \in DOMAIN hyp_defaults THEN 1 ELSE 2
    /\ op = "default_search"
         => /\ result.err = "none"
            /\ Len(result.value) = args.n
            /\ \A f \in Fns : Invoked(f) = args.n * Cardinality(FreshKeys(f))
C9_Witness ==
    /\ op = "default_dict"
    /\ CallableKeys("F") = {"a"}
    /\ "a" \notin DOMAIN hyp_defaults
    /\ calls0["F"] = 1
    /\ calls["F"] = 2

\* C10: the stored generator map and the defaults map stay as they were at
\* construction through every call and through the caller adding or replacing
\* entries of the map it passed in; with no Factory, default_dict keeps returning
\* the dictionary of the construction-time defaults.
BuiltDefault(k) ==
    IF k \in DOMAIN built.hyp_defaults THEN built.hyp_defaults[k]
    ELSE IF built.hyperparams.at[k].kind = "list" THEN built.hyperparams.at[k].items[1]
    ELSE built.hyperparams.at[k].value
C10_StoredMapsUnchanged ==
    phase = "ready"
    => /\ self_hyperparams_dict = built.hyperparams
       /\ hyp_defaults = built.hyp_defaults
       /\ (op = "default_dict" /\ \A f \in Fns : CallableKeys(f) = {})
            => result.value = <<[k \in DOMAIN built.hyperparams.at |-> BuiltDefault(k)]>>
C10_Witness ==
    /\ phase = "ready"
    /\ hyperparams_arg # self_hyperparams_dict
    /\ "b" \notin DOMAIN hyperparams
    /\ op = "one_value_grid_search"
    /\ result.err = "none"
    /\ Len(result.value) = 2
====
